---- MODULE Spec2Model ----
(***************************************************************************)
(* Question generation pipeline of the coding-book application:            *)
(*   POST /api/generate  (src/src/app/api/generate/route.ts)               *)
(*   generateQuestionMetadata (src/src/lib/gemini.ts)                      *)
(*   validateGenerateRequest, validateAndSanitizeTitle, the zod schemas    *)
(*                        (src/src/lib/validation.ts)                      *)
(*   saveQuestion and the questions table (src/src/lib/database.ts)        *)
(*                                                                         *)
(* JavaScript runs each handler to its next await without interruption, so *)
(* every action below is the code between two suspension points.           *)
(***************************************************************************)
EXTENDS Integers, Sequences, FiniteSets, TLC

----------------------------------------------------------------------------
(* Program constants *)

MAX_CONCURRENT_GENERATIONS == 3

MAX_QUESTIONS_PER_GENERATION == 20

MAX_TITLE_LENGTH == 200

RETRY_ATTEMPTS == 3

(* Bounds of the exploration *)

\* longest accepted title list explored (two batches need more than three)
MaxTitles == 4

\* longest title list explored with every kind of title
MaxMixedTitles == 2

\* longest title list for which every kind of response text is explored
MaxRichTitles == 1

\* failed generation attempts (raise or empty text) explored in one call
MaxFaults == 3

----------------------------------------------------------------------------
(* Strings with their surrounding whitespace: pre and post count the       *)
(* leading and trailing whitespace characters, core names the text between *)
(* them and n is the number of characters of core.                         *)

Title(pre, core, n, post) == [pre |-> pre, core |-> core, n |-> n, post |-> post]

Length(t) == t.pre + t.n + t.post

\* String.prototype.trim: a string of whitespace only trims to ""
trim(t) == IF t.n = 0 THEN Title(0, "", 0, 0) ELSE Title(0, t.core, t.n, 0)

TitleA      == Title(0, "A", 5, 0)
TitlePadded == Title(1, "A", 5, 1)
TitleBlank  == Title(2, "", 0, 0)
TitleEmpty  == Title(0, "", 0, 0)
TitleLong   == Title(0, "L", MAX_TITLE_LENGTH + 1, 0)
TitlePadMax == Title(1, "M", MAX_TITLE_LENGTH - 1, 1)

TitleKinds == {TitleA, TitlePadded, TitleBlank, TitleEmpty, TitleLong, TitlePadMax}

\* the request bodies explored: every list of up to MaxMixedTitles titles,
\* the longer lists of plain and blank titles up to MaxTitles, and one list
\* just over the size limit
Requests ==
    UNION {[1..n -> TitleKinds] : n \in 0..MaxMixedTitles}
      \cup UNION {[1..n -> {TitleA, TitleBlank}] : n \in 0..MaxTitles}
      \cup {[i \in 1..(MAX_QUESTIONS_PER_GENERATION + 1) |-> TitleA]}

----------------------------------------------------------------------------
(* Errors: the class name and the message, the message kept as the list of *)
(* the pieces it is concatenated from.                                     *)

Err(type, msg) == [type |-> type, msg |-> msg]

NoErr == Err("none", <<>>)

\* utils.getErrorMessage: the message of the error
getErrorMessage(e) == e.msg

----------------------------------------------------------------------------
(* JSON values of a decoded response                                       *)

Absent == [t |-> "absent", s |-> "", l |-> <<>>]
Str(x) == [t |-> "str", s |-> x, l |-> <<>>]
List(x) == [t |-> "list", s |-> "", l |-> x]
Obj3(i, o, e) == [t |-> "obj", s |-> "", l |-> <<i, o, e>>]

\* JavaScript truthiness of a decoded value
Truthy(v) == v.t \in {"list", "obj"} \/ (v.t = "str" /\ v.s # "")

IsArray(v) == v.t = "list"

FullObject ==
    [title |-> Str("A"), difficulty |-> Str("Easy"), description |-> Str("desc"),
     topics |-> List(<<"math">>), example |-> Obj3("4", "even", "4 % 2 = 0"),
     solution_python |-> Str("code"),
     step_by_step_explanation |-> List(<<"step">>),
     pseudocode |-> List(<<"line">>), id |-> Absent]

\* the response texts explored: prose without an object literal, an object
\* literal that does not decode, and decodable objects
Text(shape, obj) == [shape |-> shape, obj |-> obj]

TextFull         == Text("object", FullObject)
TextProse        == Text("prose", FullObject)
TextGarbled      == Text("garbled", FullObject)
TextNoTitle      == Text("object", [FullObject EXCEPT !.title = Absent])
TextNoTopics     == Text("object", [FullObject EXCEPT !.topics = Absent, !.pseudocode = Str("n/a")])
TextBadDifficulty == Text("object", [FullObject EXCEPT !.difficulty = Str("Extreme")])
TextNoSolution   == Text("object", [FullObject EXCEPT !.solution_python = Absent])
TextEmptyExample == Text("object", [FullObject EXCEPT !.example = Obj3("", "", ""),
                                                      !.step_by_step_explanation = Str("none")])
TextWithId       == Text("object", [FullObject EXCEPT !.id = Str("ai")])

CoreTexts == {TextFull, TextNoTitle}

AllTexts == {TextFull, TextProse, TextGarbled, TextNoTitle, TextNoTopics,
             TextBadDifficulty, TextNoSolution, TextEmptyExample, TextWithId}

----------------------------------------------------------------------------
(* Request validation *)

\* z.string().min(1).max(200)
TitleSchema(t) == Length(t) >= 1 /\ Length(t) <= MAX_TITLE_LENGTH

\* z.object({titles: z.array(z.string().min(1).max(200)).min(1).max(20)})
GenerateRequestSchema(titles) ==
    /\ Len(titles) >= 1
    /\ Len(titles) <= MAX_QUESTIONS_PER_GENERATION
    /\ \A i \in 1..Len(titles) : TitleSchema(titles[i])

\* validateGenerateRequest: the parsed request, or a ValidationError
validateGenerateRequest(titles) ==
    IF GenerateRequestSchema(titles)
    THEN [ok |-> TRUE, err |-> NoErr]
    ELSE [ok |-> FALSE, err |-> Err("ValidationError", <<"Invalid generate request: ", "zod">>)]

\* validateAndSanitizeTitle: the trimmed title, or a ValidationError
validateAndSanitizeTitle(title) ==
    IF Length(title) = 0
    THEN [ok |-> FALSE, title |-> title, err |-> Err("ValidationError", <<"Title is required">>)]
    ELSE IF Length(trim(title)) = 0
    THEN [ok |-> FALSE, title |-> title, err |-> Err("ValidationError", <<"Title cannot be empty">>)]
    ELSE IF Length(trim(title)) > MAX_TITLE_LENGTH
    THEN [ok |-> FALSE, title |-> title,
          err |-> Err("ValidationError", <<"Title cannot exceed 200 characters">>)]
    ELSE [ok |-> TRUE, title |-> trim(title), err |-> NoErr]

----------------------------------------------------------------------------
(* The ledger (GenerationStatus) and the HTTP response *)

NewStatus(n) == [total |-> n, completed |-> 0, failed |-> 0, errors |-> <<>>]

NoResponse == [status |-> 0, success |-> FALSE, error |-> "", hasData |-> FALSE,
               data |-> NewStatus(0)]

ErrorResponse(status, error) ==
    [status |-> status, success |-> FALSE, error |-> error, hasData |-> FALSE,
     data |-> NewStatus(0)]

\* the catch block of POST: the response for an error that reached it
OuterCatch(e) ==
    IF e.type = "ValidationError" THEN ErrorResponse(400, "validation")
    ELSE IF e.type = "GeminiError"
    THEN ErrorResponse(503, "AI service temporarily unavailable. Please try again later.")
    ELSE IF e.type = "DatabaseError" THEN ErrorResponse(500, "Database operation failed")
    ELSE ErrorResponse(500, "Internal server error")

RequestError_unbounded(titles) ==
    IF \E i \in 1..Len(titles) : ~TitleSchema(titles[i])
    THEN OuterCatch(validateGenerateRequest(titles).err)
    ELSE IF Len(titles) = 0
    THEN ErrorResponse(400, "At least one question title is required")
    ELSE NoResponse

\* the start of POST: the response that ends the call before any title is
\* processed, or NoResponse when the request goes on to generation
RequestError(titles) ==
    IF ~validateGenerateRequest(titles).ok
    THEN OuterCatch(validateGenerateRequest(titles).err)
    ELSE IF Len(titles) = 0
    THEN ErrorResponse(400, "At least one question title is required")
    ELSE IF Len(titles) > MAX_QUESTIONS_PER_GENERATION
    THEN ErrorResponse(400, "Maximum 20 questions can be generated at once")
    ELSE NoResponse

ResponseFor_anyFailure(gs) ==
    IF gs.failed > 0
    THEN [status |-> 500, success |-> FALSE, error |-> "Failed to generate any questions",
          hasData |-> TRUE, data |-> gs]
    ELSE [status |-> 200, success |-> TRUE, error |-> "", hasData |-> TRUE, data |-> gs]

\* the response computed from the final ledger
ResponseFor(gs) ==
    IF gs.completed = 0
    THEN [status |-> 500, success |-> FALSE, error |-> "Failed to generate any questions",
          hasData |-> TRUE, data |-> gs]
    ELSE [status |-> IF gs.failed > 0 THEN 207 ELSE 200,
          success |-> ~(gs.failed > 0), error |-> "", hasData |-> TRUE, data |-> gs]

----------------------------------------------------------------------------
(* generateQuestionMetadata after the retried call has returned text *)

GeminiCatch_generic(e) ==
    IF e.type = "GeminiError" THEN e
    ELSE Err("GeminiError", <<"Failed to generate question metadata">>)

GeminiCatch_rethrow(e) == e

\* the catch block of generateQuestionMetadata: a GeminiError passes, any
\* other error is wrapped
GeminiCatch(e) ==
    IF e.type = "GeminiError" THEN e
    ELSE Err("GeminiError", <<"Failed to generate question metadata: ">> \o getErrorMessage(e))

Coerce_keep(obj) == obj

\* the array coercions of the decoded response
Coerce(obj) ==
    [obj EXCEPT
       !.topics = IF IsArray(obj.topics) THEN obj.topics ELSE List(<<>>),
       !.step_by_step_explanation =
           IF IsArray(obj.step_by_step_explanation)
           THEN obj.step_by_step_explanation ELSE List(<<>>),
       !.pseudocode = IF IsArray(obj.pseudocode) THEN obj.pseudocode ELSE Absent]

MissingRequired_absentOnly(obj) ==
    obj.title.t = "absent" \/ obj.difficulty.t = "absent" \/ obj.description.t = "absent"

\* !parsedResponse.title || !parsedResponse.difficulty || !parsedResponse.description
MissingRequired(obj) ==
    ~Truthy(obj.title) \/ ~Truthy(obj.difficulty) \/ ~Truthy(obj.description)

\* nothing is returned when the parse throws
NoMeta == Absent

\* locating, decoding and checking the object literal of a response text
ParseResponse(text) ==
    IF text.shape = "prose"
    THEN [ok |-> FALSE, meta |-> NoMeta,
          err |-> GeminiCatch(Err("GeminiError", <<"Invalid response format from Gemini API">>))]
    ELSE IF text.shape = "garbled"
    THEN [ok |-> FALSE, meta |-> NoMeta,
          err |-> GeminiCatch(Err("SyntaxError", <<"Unexpected token">>))]
    ELSE IF MissingRequired(text.obj)
    THEN [ok |-> FALSE, meta |-> NoMeta,
          err |-> GeminiCatch(Err("GeminiError", <<"Incomplete response from Gemini API">>))]
    ELSE [ok |-> TRUE, meta |-> Coerce(text.obj), err |-> NoErr]

----------------------------------------------------------------------------
(* State *)

VARIABLES
    req,                \* validatedRequest.titles as submitted
    phase,              \* "received", "running", "interbatch", "responded"
    cur,                \* number of the batch being processed
    task,               \* the async task of each title
    generationStatus,   \* the ledger
    db,                 \* rows of the questions table
    response,           \* the HTTP response
    nextId              \* source of fresh identifiers (generateId)

VARIABLES
    now                 \* Date.now(), in milliseconds

genVars == <<req, phase, cur, task, generationStatus, db, response, nextId>>

----------------------------------------------------------------------------
(* The question built by the route and the questions table *)

\* Date.prototype.toISOString of the instant n
Iso(n) == [t |-> "str", s |-> ToString(n), l |-> <<>>]

\* SQL NULL
Null == [t |-> "null", s |-> "", l |-> <<>>]

\* JSON.stringify of a list of strings or of the example object: a string
\* holding the bracketed elements
JsonStringify(v) ==
    IF v.t = "list" THEN [t |-> "str", s |-> "[]", l |-> v.l]
    ELSE IF v.t = "obj" THEN [t |-> "str", s |-> "{}", l |-> v.l]
    ELSE IF v.t = "str" THEN [t |-> "str", s |-> "quoted", l |-> <<v.s>>]
    ELSE Absent

\* JSON.parse of such a string
JsonParse(x) ==
    IF x.s = "[]" THEN [t |-> "list", s |-> "", l |-> x.l]
    ELSE IF x.s = "{}" THEN [t |-> "obj", s |-> "", l |-> x.l]
    ELSE [t |-> "str", s |-> x.l[1], l |-> <<>>]

\* { id: generateId(), ...metadata, title: sanitizedTitle, created_at: now }
BuildQuestion(fresh, meta, sanitizedTitle) ==
    [id |-> IF meta.id.t = "absent" THEN [gen |-> fresh, v |-> Absent]
            ELSE [gen |-> 0, v |-> meta.id],
     title |-> sanitizedTitle,
     difficulty |-> meta.difficulty,
     topics |-> meta.topics,
     description |-> meta.description,
     example |-> meta.example,
     solution_python |-> meta.solution_python,
     step_by_step_explanation |-> meta.step_by_step_explanation,
     pseudocode |-> meta.pseudocode,
     created_at |-> Iso(now),
     updated_at |-> Absent]

\* the completeness check before saving
IsIncomplete(q) ==
    Length(q.title) = 0 \/ ~Truthy(q.description) \/ ~Truthy(q.solution_python)

\* what the INSERT statement accepts: bindable values, NOT NULL columns and
\* CHECK (difficulty IN ('Easy', 'Medium', 'Hard'))
InsertAccepts(q) ==
    /\ q.difficulty.t = "str" /\ q.difficulty.s \in {"Easy", "Medium", "Hard"}
    /\ q.description.t = "str"
    /\ q.solution_python.t = "str"
    /\ q.example.t # "absent"

\* the values saveQuestion binds to the INSERT statement at instant n
QuestionRow(q, n) ==
    [id |-> q.id,
     title |-> q.title,
     difficulty |-> q.difficulty,
     topics |-> JsonStringify(q.topics),
     description |-> q.description,
     example |-> JsonStringify(q.example),
     solution_python |-> q.solution_python,
     step_by_step_explanation |-> JsonStringify(q.step_by_step_explanation),
     pseudocode |-> IF Truthy(q.pseudocode) THEN JsonStringify(q.pseudocode) ELSE Null,
     created_at |-> q.created_at,
     updated_at |-> Iso(n)]

convertDbToQuestion_raw(row) ==
    [id |-> row.id,
     title |-> row.title,
     difficulty |-> row.difficulty,
     topics |-> row.topics,
     description |-> row.description,
     example |-> JsonParse(row.example),
     solution_python |-> row.solution_python,
     step_by_step_explanation |-> JsonParse(row.step_by_step_explanation),
     pseudocode |-> IF Truthy(row.pseudocode) THEN JsonParse(row.pseudocode) ELSE Absent,
     created_at |-> row.created_at,
     updated_at |-> IF Truthy(row.updated_at) THEN row.updated_at ELSE Absent]

\* convertDbToQuestion: a row of the table as a Question
convertDbToQuestion(row) ==
    [id |-> row.id,
     title |-> row.title,
     difficulty |-> row.difficulty,
     topics |-> JsonParse(row.topics),
     description |-> row.description,
     example |-> JsonParse(row.example),
     solution_python |-> row.solution_python,
     step_by_step_explanation |-> JsonParse(row.step_by_step_explanation),
     pseudocode |-> IF Truthy(row.pseudocode) THEN JsonParse(row.pseudocode) ELSE Absent,
     created_at |-> row.created_at,
     updated_at |-> IF Truthy(row.updated_at) THEN row.updated_at ELSE Absent]

\* saveQuestion: INSERT OR REPLACE on the primary key id, with
\* UNIQUE(title) ON CONFLICT REPLACE; any failure is a DatabaseError
saveQuestion(table, q, io) ==
    IF io = "ok" /\ InsertAccepts(q)
    THEN [ok |-> TRUE, err |-> NoErr,
          table |-> {r \in table : r.id # q.id /\ r.title # q.title}
                      \cup {QuestionRow(q, now)}]
    ELSE [ok |-> FALSE, table |-> table,
          err |-> Err("DatabaseError", <<"Failed to save question: ", "sqlite">>)]

SaveAndCount_early(gs, table, q, io) ==
    LET w == saveQuestion(table, q, io)
    IN [ok |-> w.ok, err |-> w.err, table |-> w.table,
        gs |-> [gs EXCEPT !.completed = gs.completed + 1]]

\* saveQuestion(question); generatedQuestions.push(question);
\* generationStatus.completed++
SaveAndCount(gs, table, q, io) ==
    LET w == saveQuestion(table, q, io)
    IN [ok |-> w.ok, err |-> w.err, table |-> w.table,
        gs |-> IF w.ok THEN [gs EXCEPT !.completed = gs.completed + 1] ELSE gs]

\* QuestionSchema, for the fields the response supplies
QuestionSchema(q) ==
    /\ q.difficulty.t = "str" /\ q.difficulty.s \in {"Easy", "Medium", "Hard"}
    /\ q.topics.t = "list" /\ Len(q.topics.l) >= 1 /\ Len(q.topics.l) <= 10
    /\ q.description.t = "str" /\ q.description.s # ""
    /\ q.example.t = "obj" /\ \A k \in 1..3 : q.example.l[k] # ""
    /\ q.solution_python.t = "str" /\ q.solution_python.s # ""
    /\ q.step_by_step_explanation.t = "list" /\ Len(q.step_by_step_explanation.l) >= 1
    /\ q.pseudocode.t \in {"list", "absent"}
    /\ Length(q.title) >= 1 /\ Length(q.title) <= MAX_TITLE_LENGTH

\* getQuestion: the question stored under id, or null
getQuestion(table, id) ==
    IF \E r \in table : r.id = id
    THEN [found |-> TRUE, q |-> convertDbToQuestion(CHOOSE r \in table : r.id = id)]
    ELSE [found |-> FALSE, q |-> Null]

----------------------------------------------------------------------------
(* State of the rate limiter *)

VARIABLES
    clients,            \* RateLimiter.clients: client id -> its record
    rlCalls,            \* number of isAllowed calls made so far
    rlLast,             \* the latest isAllowed call and what it returned
    rlLog,              \* per client, the calls since its record was created
    rlAdmitted          \* per client, the instants of all admitted calls

rlVars == <<clients, rlCalls, rlLast, rlLog, rlAdmitted>>

ClientIds == {"c1", "c2"}

\* no entry in the clients map
NoInfo == [present |-> FALSE, requests |-> <<>>, lastReset |-> 0]

NoCall == [client |-> "", at |-> 0, before |-> <<>>, allowed |-> FALSE,
           remaining |-> 0, resetTime |-> 0]

RLIdle ==
    /\ clients = [c \in ClientIds |-> NoInfo]
    /\ rlCalls = 0
    /\ rlLast = NoCall
    /\ rlLog = [c \in ClientIds |-> <<>>]
    /\ rlAdmitted = [c \in ClientIds |-> <<>>]

----------------------------------------------------------------------------
(* State of the memory cache *)

VARIABLES
    cache,              \* MemoryCache.cache: key -> item
    cOps,               \* number of cache operations made so far
    cLast,              \* the latest cache operation and what it returned
    cLatest,            \* per key, the latest set since the last delete
    wcTtl,              \* the ttl argument of withCache
    wcFn                \* per key, the latest invocation of the wrapped function

cacheVars == <<cache, cOps, cLast, cLatest, wcTtl, wcFn>>

\* cacheKeys.allQuestions() and cacheKeys.questionStats()
Keys == {"questions:all", "questions:stats"}

\* values of the cached data, among them JavaScript's null and undefined
JsNull == "null"
JsUndefined == "undefined"
Values == {"v", JsNull, JsUndefined}

\* no entry in the cache map
NoItem == [present |-> FALSE, data |-> JsUndefined, timestamp |-> 0, ttl |-> 0]

NoOp == [op |-> "", key |-> "", at |-> 0, ret |-> JsUndefined, invoked |-> FALSE]

NoSet == [live |-> FALSE, data |-> JsUndefined, timestamp |-> 0, ttl |-> 0, sets |-> 0,
          over |-> "none"]

NoRun == [ran |-> FALSE, at |-> 0, result |-> JsUndefined]

CacheIdle ==
    /\ cache = [k \in Keys |-> NoItem]
    /\ cOps = 0
    /\ cLast = NoOp
    /\ cLatest = [k \in Keys |-> NoSet]
    /\ wcTtl = <<>>
    /\ wcFn = [k \in Keys |-> NoRun]

----------------------------------------------------------------------------
(* State of a save followed by a read, and of one parse *)

VARIABLES
    art,                \* the artifact handed to saveQuestion
    got,                \* what getQuestion returned
    stPhase,            \* "new", "saved", "raised", "read"
    savedAt             \* the instant of the save

storeVars == <<art, got, stPhase, savedAt>>

NotFound == [found |-> FALSE, q |-> Null]

StoreIdle ==
    /\ art = Null
    /\ got = NotFound
    /\ stPhase = "idle"
    /\ savedAt = 0

VARIABLES
    prIn,               \* the response text handed to the parser
    prOut,              \* what the parse produced
    prPhase             \* "text", "parsed"

parseVars == <<prIn, prOut, prPhase>>

NotParsed == [ok |-> FALSE, meta |-> NoMeta, err |-> NoErr]

ParseIdle ==
    /\ prIn = Text("prose", FullObject)
    /\ prOut = NotParsed
    /\ prPhase = "idle"

----------------------------------------------------------------------------
(* One POST /api/generate call *)

libVars == <<now, rlVars, cacheVars, storeVars, parseVars>>

\* the generate route is at rest
GenIdle ==
    /\ req = <<>>
    /\ phase = "idle"
    /\ cur = 0
    /\ task = <<>>
    /\ generationStatus = NewStatus(0)
    /\ db = {}
    /\ response = NoResponse
    /\ nextId = 1

vars == <<genVars, libVars>>

\* st: "pending", "stagger", "inflight", "retrywait", "done", "rejected"
\* calls: generation calls made; errs: the error of each failed attempt
\* writes/okWrites: saveQuestion calls made / returned without error
\* thrown: the error generateQuestionMetadata threw, if it threw
IdleTask == [st |-> "pending", calls |-> 0, errs |-> <<>>, outcome |-> "none",
             writes |-> 0, okWrites |-> 0, err |-> NoErr, thrown |-> NoErr]

Min(a, b) == IF a <= b THEN a ELSE b

\* for (i = 0; i < n; i += K) batches.push(titles.slice(i, i + K))
NumBatches(n) == (n + MAX_CONCURRENT_GENERATIONS - 1) \div MAX_CONCURRENT_GENERATIONS

BatchFirst(b) == (b - 1) * MAX_CONCURRENT_GENERATIONS + 1

BatchLast_wide(b, n) == Min(b * MAX_CONCURRENT_GENERATIONS + 1, n)

BatchLast(b, n) == Min(b * MAX_CONCURRENT_GENERATIONS, n)

BatchIndices(b, n) == BatchFirst(b)..BatchLast(b, n)

\* the batch a title belongs to
BatchOf(i) == (i - 1) \div MAX_CONCURRENT_GENERATIONS + 1

\* the retry helper of utils: another attempt follows a failed one while
\* fewer than the given number of attempts were made
retryAgain(calls) == calls < RETRY_ATTEMPTS

\* the retry helper of utils: the error thrown when the attempts are used up
retryError(errs) == errs[Len(errs)]

\* the error of a failed attempt inside the retried function
AttemptError(kind) ==
    IF kind = "empty" THEN Err("GeminiError", <<"Empty response from Gemini API">>)
    ELSE Err("Error", <<"fetch failed">>)

TotalFaults(ts) ==
    LET RECURSIVE Sum(_)
        Sum(i) == IF i = 0 THEN 0 ELSE Len(ts[i].errs) + Sum(i - 1)
    IN Sum(Len(req))

\* the response texts explored for a list of n titles
TextsFor(n) == IF n <= MaxRichTitles THEN AllTexts ELSE CoreTexts

\* the ways an attempt fails explored for a list of n titles: the call
\* raises, or returns empty text
FaultKindsFor(n) == IF n <= MaxMixedTitles THEN {"raise", "empty"} ELSE {"raise"}

CatchTask_rethrow(gs, title, e) ==
    [gs |-> gs, st |-> "rejected", outcome |-> "none", err |-> e]

CatchTask_silent(gs, title, e) ==
    [gs |-> [gs EXCEPT !.failed = gs.failed + 1],
     st |-> "done", outcome |-> "failed", err |-> NoErr]

\* the catch block of a title's task: count the failure, append the error
\* entry, and fulfil the task's promise
CatchTask(gs, title, e) ==
    [gs |-> [gs EXCEPT !.failed = gs.failed + 1,
                       !.errors = Append(gs.errors,
                                         [title |-> title, msg |-> getErrorMessage(e)])],
     st |-> "done", outcome |-> "failed", err |-> NoErr]

Settle(t, c) == [t EXCEPT !.st = c.st, !.outcome = c.outcome, !.err = c.err]

ParseFailed_retry(t, c) == [t EXCEPT !.st = "retrywait"]

\* a throw of the parse, made after the retry has returned, reaches the
\* task's catch block
ParseFailed(t, c) == Settle(t, c)

\* batch.map(async (title, batchIndex) => ...) up to the first await of each
\* task: sanitize, then either fail, sleep (batchIndex > 0) or call
RECURSIVE StartFrom(_, _, _, _, _)
StartFrom(i, lo, hi, ts, gs) ==
    IF i > hi THEN [task |-> ts, gs |-> gs]
    ELSE LET san == validateAndSanitizeTitle(req[i])
         IN IF san.ok
            THEN StartFrom(i + 1, lo, hi,
                           [ts EXCEPT ![i] = [IdleTask EXCEPT
                                !.st = IF i > lo THEN "stagger" ELSE "inflight",
                                !.calls = IF i > lo THEN 0 ELSE 1]],
                           gs)
            ELSE LET c == CatchTask(gs, req[i], san.err)
                 IN StartFrom(i + 1, lo, hi, [ts EXCEPT ![i] = Settle(IdleTask, c)], c.gs)

StartBatch_skipLast(b, ts, gs) ==
    StartFrom(BatchFirst(b), BatchFirst(b), BatchLast(b, Len(req)) - 1, ts, gs)

StartBatch(b, ts, gs) == StartFrom(BatchFirst(b), BatchFirst(b), BatchLast(b, Len(req)), ts, gs)

BatchSettled_any(b) == \E i \in BatchIndices(b, Len(req)) : task[i].st = "done"

\* await Promise.all(batchPromises) resolves
BatchSettled(b) == \A i \in BatchIndices(b, Len(req)) : task[i].st = "done"

BatchRejected(b) == \E i \in BatchIndices(b, Len(req)) : task[i].st = "rejected"

----------------------------------------------------------------------------
(* Actions *)

Init ==
    /\ req \in Requests
    /\ phase = "received"
    /\ cur = 0
    /\ task = [i \in 1..Len(req) |-> IdleTask]
    /\ generationStatus = NewStatus(0)
    /\ db = {}
    /\ response = NoResponse
    /\ nextId = 1
    /\ now = 0
    /\ RLIdle
    /\ StoreIdle
    /\ ParseIdle
    /\ CacheIdle

\* POST from the request body to the first await of the first batch
Receive ==
    /\ phase = "received"
    /\ IF RequestError(req) # NoResponse
       THEN /\ response' = RequestError(req)
            /\ phase' = "responded"
            /\ UNCHANGED <<cur, task, generationStatus>>
       ELSE LET s == StartBatch(1, task, NewStatus(Len(req)))
            IN /\ task' = s.task
               /\ generationStatus' = s.gs
               /\ cur' = 1
               /\ phase' = "running"
               /\ UNCHANGED response
    /\ UNCHANGED <<req, db, nextId>>
    /\ UNCHANGED libVars

\* sleep(GENERATION_DELAY) of a task with batchIndex > 0 ends: first call
StaggerWake(i) ==
    /\ task[i].st = "stagger"
    /\ task' = [task EXCEPT ![i].st = "inflight", ![i].calls = 1]
    /\ UNCHANGED <<req, phase, cur, generationStatus, db, response, nextId>>
    /\ UNCHANGED libVars

\* a generation call raises or returns empty text
AttemptFails(i) ==
    /\ task[i].st = "inflight"
    /\ TotalFaults(task) < MaxFaults
    /\ \E kind \in FaultKindsFor(Len(req)) :
         LET errs == Append(task[i].errs, AttemptError(kind))
         IN IF retryAgain(task[i].calls)
            THEN /\ task' = [task EXCEPT ![i].st = "retrywait", ![i].errs = errs]
                 /\ UNCHANGED generationStatus
            ELSE LET e == GeminiCatch(retryError(errs))
                     c == CatchTask(generationStatus, req[i], e)
                 IN /\ task' = [task EXCEPT ![i] =
                                   Settle([@ EXCEPT !.errs = errs, !.thrown = e], c)]
                    /\ generationStatus' = c.gs
    /\ UNCHANGED <<req, phase, cur, db, response, nextId>>
    /\ UNCHANGED libVars

\* the delay of the retry helper ends: next call
RetryWake(i) ==
    /\ task[i].st = "retrywait"
    /\ task' = [task EXCEPT ![i].st = "inflight", ![i].calls = @ + 1]
    /\ UNCHANGED <<req, phase, cur, generationStatus, db, response, nextId>>
    /\ UNCHANGED libVars

\* a generation call returns non-empty text: parse, build, check, save
AttemptReturnsText(i) ==
    /\ task[i].st = "inflight"
    /\ \E text \in TextsFor(Len(req)), io \in {"ok", "fail"} :
         LET p == ParseResponse(text)
             q == BuildQuestion(nextId, p.meta, validateAndSanitizeTitle(req[i]).title)
             s == SaveAndCount(generationStatus, db, q, io)
         IN IF ~p.ok
            THEN LET c == CatchTask(generationStatus, req[i], p.err)
                 IN /\ task' = [task EXCEPT ![i] =
                                   ParseFailed([@ EXCEPT !.thrown = p.err], c)]
                    /\ generationStatus' = c.gs
                    /\ UNCHANGED <<db, nextId>>
            ELSE IF IsIncomplete(q)
            THEN LET c == CatchTask(generationStatus, req[i],
                                    Err("Error", <<"Generated question is incomplete">>))
                 IN /\ task' = [task EXCEPT ![i] = Settle(@, c)]
                    /\ generationStatus' = c.gs
                    /\ nextId' = nextId + 1
                    /\ UNCHANGED db
            ELSE IF ~s.ok
            THEN LET c == CatchTask(s.gs, req[i], s.err)
                 IN /\ task' = [task EXCEPT ![i] = Settle([@ EXCEPT !.writes = @ + 1], c)]
                    /\ generationStatus' = c.gs
                    /\ nextId' = nextId + 1
                    /\ db' = s.table
            ELSE /\ task' = [task EXCEPT ![i] = [@ EXCEPT !.st = "done",
                                 !.outcome = "completed", !.writes = @ + 1,
                                 !.okWrites = @ + 1]]
                 /\ generationStatus' = s.gs
                 /\ nextId' = nextId + 1
                 /\ db' = s.table
    /\ UNCHANGED <<req, phase, cur, response>>
    /\ UNCHANGED libVars

\* await Promise.all(batchPromises) settles: sleep before the next batch, or
\* respond after the last one; a rejected task would end in the outer catch
AwaitBatch ==
    /\ phase = "running"
    /\ BatchSettled(cur) \/ BatchRejected(cur)
    /\ IF BatchRejected(cur)
       THEN /\ response' = OuterCatch((CHOOSE e \in {task[i].err :
                                 i \in {j \in BatchIndices(cur, Len(req)) : task[j].st = "rejected"}} : TRUE))
            /\ phase' = "responded"
       ELSE IF cur < NumBatches(Len(req))
       THEN /\ phase' = "interbatch"
            /\ UNCHANGED response
       ELSE /\ response' = ResponseFor(generationStatus)
            /\ phase' = "responded"
    /\ UNCHANGED <<req, cur, task, generationStatus, db, nextId>>
    /\ UNCHANGED libVars

\* sleep(GENERATION_DELAY * 2) ends: the next batch starts
InterBatchWake ==
    /\ phase = "interbatch"
    /\ LET s == StartBatch(cur + 1, task, generationStatus)
       IN /\ task' = s.task
          /\ generationStatus' = s.gs
    /\ cur' = cur + 1
    /\ phase' = "running"
    /\ UNCHANGED <<req, db, response, nextId>>
    /\ UNCHANGED libVars

Next ==
    \/ Receive
    \/ \E i \in 1..Len(req) : StaggerWake(i)
    \/ \E i \in 1..Len(req) : AttemptFails(i)
    \/ \E i \in 1..Len(req) : RetryWake(i)
    \/ \E i \in 1..Len(req) : AttemptReturnsText(i)
    \/ AwaitBatch
    \/ InterBatchWake

Spec == Init /\ [][Next]_vars

----------------------------------------------------------------------------
(* Properties of the generate call *)

Titles == 1..Len(req)

Responded == phase = "responded"

Failed(i) == task[i].outcome = "failed"

Completed(i) == task[i].outcome = "completed"

HasEntry(i) == \E k \in 1..Len(generationStatus.errors) :
                   generationStatus.errors[k].title = req[i]

\* s is the end of the message m
EndsWith(m, s) == Len(m) >= Len(s) /\ SubSeq(m, Len(m) - Len(s) + 1, Len(m)) = s

\* C1: the ledger returned by generate has completed + failed = total =
\* number of titles submitted, and its errors list holds exactly one entry
\* per failed title.
C1_LedgerBalanced ==
    (Responded /\ response.hasData) =>
        LET d == response.data
        IN /\ d.total = Len(req)
           /\ d.completed + d.failed = d.total
           /\ Len(d.errors) = d.failed
           /\ d.failed = Cardinality({i \in Titles : Failed(i)})
           /\ d.completed = Cardinality({i \in Titles : Completed(i)})
           /\ \A t \in TitleKinds :
                Cardinality({k \in 1..Len(d.errors) : d.errors[k].title = t})
                  = Cardinality({i \in Titles : Failed(i) /\ req[i] = t})

C1_Witness ==
    /\ Responded /\ response.hasData
    /\ response.data.total = 4
    /\ response.data.completed >= 1
    /\ response.data.failed >= 2

\* C2: no generation call for a title of batch b+1 begins until every title
\* of batch b has finished: its write done, or its failure recorded.
C2_Barrier ==
    \A i, j \in Titles :
        (BatchOf(j) = BatchOf(i) + 1 /\ task[j].calls >= 1) =>
            /\ task[i].st = "done"
            /\ \/ Completed(i) /\ task[i].okWrites = 1
               \/ Failed(i) /\ HasEntry(i)

C2_Witness ==
    /\ \E j \in Titles : BatchOf(j) = 2 /\ task[j].st = "inflight"
    /\ \E i \in Titles : BatchOf(i) = 1 /\ Completed(i)
    /\ \E i \in Titles : BatchOf(i) = 1 /\ Failed(i) /\ task[i].calls >= 1

\* C3: at most MAX_CONCURRENT_GENERATIONS generation calls are in flight,
\* retry attempts counted.
C3_BoundedInFlight ==
    Cardinality({i \in Titles : task[i].st = "inflight"}) <= MAX_CONCURRENT_GENERATIONS

C3_Witness ==
    /\ Cardinality({i \in Titles : task[i].st = "inflight"}) = MAX_CONCURRENT_GENERATIONS
    /\ \E i \in Titles : task[i].st = "inflight" /\ task[i].calls >= 2

\* C4: for a request that passed validation, a failed generation, parse or
\* write of one title never keeps the call from returning the ledger, and
\* every title has been processed to completed or failed by then.
C4_NoPropagation ==
    (Responded /\ GenerateRequestSchema(req)) =>
        /\ response.hasData
        /\ response.data = generationStatus
        /\ \A i \in Titles : task[i].st = "done" /\ (Completed(i) \/ Failed(i))
        /\ \A i \in Titles : validateAndSanitizeTitle(req[i]).ok => task[i].calls >= 1

C4_Witness ==
    /\ Responded /\ response.hasData /\ Len(req) = 4
    /\ \E i \in Titles : Failed(i) /\ Len(task[i].errs) = RETRY_ATTEMPTS
    /\ \E i \in Titles : Failed(i) /\ task[i].writes = 1
    /\ \E i \in Titles : Failed(i) /\ task[i].calls = 1 /\ task[i].writes = 0
    /\ Completed(4)

\* a title the sanitizer rejects: empty after trimming, or over 200 characters
Unsanitary(t) == Length(trim(t)) = 0 \/ Length(trim(t)) > MAX_TITLE_LENGTH

\* C5: in a list of 1..20 titles, a title that is empty after trimming or
\* longer than 200 characters is one failure of the ledger, never reaches the
\* generation capability, and the other titles are still processed.
C5_BadTitleInLedger ==
    (Responded /\ Len(req) >= 1 /\ Len(req) <= MAX_QUESTIONS_PER_GENERATION) =>
        \A i \in Titles : Unsanitary(req[i]) =>
            /\ response.hasData
            /\ Failed(i) /\ task[i].calls = 0
            /\ \E k \in 1..Len(response.data.errors) : response.data.errors[k].title = req[i]
            /\ \A j \in Titles : Completed(j) \/ Failed(j)

\* C6: an empty title list or one of more than 20 entries gets a validation
\* error, with no generation call, no write and no ledger.
C6_SizeRejected ==
    (Len(req) = 0 \/ Len(req) > MAX_QUESTIONS_PER_GENERATION) =>
        /\ \A i \in Titles : task[i] = IdleTask
        /\ db = {}
        /\ generationStatus = NewStatus(0)
        /\ Responded => (response.status = 400 /\ ~response.hasData)

C6_Witness ==
    Responded /\ Len(req) > MAX_QUESTIONS_PER_GENERATION /\ response.status = 400

\* C7: a title whose three attempts all returned empty text or raised is
\* failed, with an error entry ending in the last attempt's message, is not
\* counted completed, and is never written.
C7_Exhausted ==
    \A i \in Titles :
        Len(task[i].errs) = RETRY_ATTEMPTS =>
            /\ Failed(i)
            /\ task[i].writes = 0
            /\ generationStatus.completed = Cardinality({j \in Titles : Completed(j)})
            /\ \E k \in 1..Len(generationStatus.errors) :
                 /\ generationStatus.errors[k].title = req[i]
                 /\ EndsWith(generationStatus.errors[k].msg,
                             task[i].errs[RETRY_ATTEMPTS].msg)

C7_Witness ==
    \E i \in Titles :
        /\ Len(task[i].errs) = RETRY_ATTEMPTS
        /\ task[i].errs[1].type = "GeminiError"
        /\ task[i].errs[RETRY_ATTEMPTS].type = "Error"
        /\ Failed(i)

\* C8: the status is decided by the final ledger: hard failure iff
\* completed = 0 (iff failed = total), partial success iff 0 < failed < total,
\* full success iff failed = 0; the ledger is in the response in all three.
C8_StatusFromLedger ==
    (Responded /\ GenerateRequestSchema(req)) =>
        LET d == response.data
        IN /\ response.hasData /\ d = generationStatus
           /\ response.status \in {200, 207, 500}
           /\ (response.status = 500) <=> (d.completed = 0)
           /\ (d.completed = 0) <=> (d.failed = d.total)
           /\ (response.status = 207) <=> (0 < d.failed /\ d.failed < d.total)
           /\ (response.status = 200) <=> (d.failed = 0)

C8_Witness ==
    Responded /\ response.hasData /\ response.status = 207 /\ response.data.total >= 2

\* C9 as stated: the write is invoked exactly once for a completed title and
\* zero times for a failed one.
C9_Original ==
    \A i \in Titles :
        /\ Completed(i) => task[i].writes = 1
        /\ Failed(i) => task[i].writes = 0

\* C9 amended: the write is invoked at most once per title; exactly once, and
\* returning without error, for a completed title; for a failed title no write
\* has returned without error (it was not invoked, or invoked once and
\* raised); completed counts exactly the titles whose write returned.
C9_WriteOnce ==
    /\ \A i \in Titles :
        /\ task[i].writes <= 1
        /\ task[i].okWrites <= task[i].writes
        /\ Completed(i) <=> task[i].okWrites = 1
        /\ Failed(i) => task[i].okWrites = 0
        /\ task[i].writes = 1 => task[i].st = "done"
    /\ generationStatus.completed = Cardinality({i \in Titles : task[i].okWrites = 1})

C9_Witness ==
    /\ \E i \in Titles : Failed(i) /\ task[i].writes = 1
    /\ \E i \in Titles : Completed(i) /\ task[i].writes = 1

\* C10: every artifact in the store satisfies the Artifact constraints
\* (difficulty, 1..10 topics, at least one step, non-empty example triple,
\* non-empty description and solution).
C10_StoredValid == \A r \in db : QuestionSchema(convertDbToQuestion(r))

----------------------------------------------------------------------------
(* The rate limiter: one RateLimiter instance *)

\* constructor arguments of the instance; instants are counted in units
\* of half a window
WindowMs == 2
MaxRequests == 2

MaxTime == 5
MaxCalls == 4

Max(a, b) == IF a > b THEN a ELSE b

isAllowed_atMax(info, t) ==
    LET rec  == IF info.present THEN info
                ELSE [present |-> TRUE, requests |-> <<>>, lastReset |-> t]
        windowStart == t - WindowMs
        kept == SelectSeq(rec.requests, LAMBDA time : time > windowStart)
        allowed == Len(kept) <= MaxRequests
        requests == IF allowed THEN Append(kept, t) ELSE kept
    IN  [info |-> [rec EXCEPT !.requests = requests],
         allowed |-> allowed,
         remaining |-> Max(0, MaxRequests - Len(requests)),
         resetTime |-> windowStart + WindowMs]

isAllowed_keepAll(info, t) ==
    LET rec  == IF info.present THEN info
                ELSE [present |-> TRUE, requests |-> <<>>, lastReset |-> t]
        windowStart == t - WindowMs
        kept == SelectSeq(rec.requests, LAMBDA time : time >= windowStart)
        allowed == Len(kept) < MaxRequests
        requests == IF allowed THEN Append(kept, t) ELSE kept
    IN  [info |-> [rec EXCEPT !.requests = requests],
         allowed |-> allowed,
         remaining |-> Max(0, MaxRequests - Len(requests)),
         resetTime |-> windowStart + WindowMs]

isAllowed_noPrune(info, t) ==
    LET rec  == IF info.present THEN info
                ELSE [present |-> TRUE, requests |-> <<>>, lastReset |-> t]
        windowStart == t - WindowMs
        kept == rec.requests
        allowed == Len(kept) < MaxRequests
        requests == IF allowed THEN Append(kept, t) ELSE kept
    IN  [info |-> [rec EXCEPT !.requests = requests],
         allowed |-> allowed,
         remaining |-> Max(0, MaxRequests - Len(requests)),
         resetTime |-> windowStart + WindowMs]

\* RateLimiter.isAllowed on the record info of the client at instant t
isAllowed(info, t) ==
    LET rec  == IF info.present THEN info
                ELSE [present |-> TRUE, requests |-> <<>>, lastReset |-> t]
        windowStart == t - WindowMs
        kept == SelectSeq(rec.requests, LAMBDA time : time > windowStart)
        allowed == Len(kept) < MaxRequests
        requests == IF allowed THEN Append(kept, t) ELSE kept
    IN  [info |-> [rec EXCEPT !.requests = requests],
         allowed |-> allowed,
         remaining |-> Max(0, MaxRequests - Len(requests)),
         resetTime |-> windowStart + WindowMs]

\* RateLimiter.cleanup: the records the sweep at instant t deletes
Stale(info, t) == info.present /\ info.lastReset < t - WindowMs * 2

cleanup(cl, t) == [c \in ClientIds |-> IF Stale(cl[c], t) THEN NoInfo ELSE cl[c]]

RLInit ==
    /\ GenIdle
    /\ now = 0
    /\ RLIdle
    /\ StoreIdle
    /\ ParseIdle
    /\ CacheIdle

\* a request of client c reaches the limiter
RLCall(c) ==
    /\ rlCalls < MaxCalls
    /\ LET r == isAllowed(clients[c], now)
       IN  /\ clients' = [clients EXCEPT ![c] = r.info]
           /\ rlLast' = [client |-> c, at |-> now, before |-> clients[c].requests,
                         allowed |-> r.allowed, remaining |-> r.remaining,
                         resetTime |-> r.resetTime]
           /\ rlLog' = [rlLog EXCEPT ![c] = Append(@, [at |-> now, ok |-> r.allowed])]
           /\ rlAdmitted' = [rlAdmitted EXCEPT ![c] =
                                IF r.allowed THEN Append(@, now) ELSE @]
    /\ rlCalls' = rlCalls + 1
    /\ UNCHANGED <<genVars, storeVars, parseVars, now, cacheVars>>

\* the interval timer set by the constructor runs cleanup
RLSweep ==
    /\ \E c \in ClientIds : Stale(clients[c], now)
    /\ clients' = cleanup(clients, now)
    /\ rlLog' = [c \in ClientIds |-> IF Stale(clients[c], now) THEN <<>> ELSE rlLog[c]]
    /\ UNCHANGED <<genVars, storeVars, parseVars, now, rlCalls, rlLast, rlAdmitted, cacheVars>>

\* time passes
RLTick ==
    /\ now < MaxTime
    /\ now' = now + 1
    /\ UNCHANGED <<genVars, storeVars, parseVars, rlVars, cacheVars>>

RLNext ==
    \/ \E c \in ClientIds : RLCall(c)
    \/ RLSweep
    \/ RLTick

SpecRL == RLInit /\ [][RLNext]_vars

\* the timestamps of ts that are later than t - WindowMs
InWindow(ts, t) == SelectSeq(ts, LAMBDA x : x > t - WindowMs)

\* C11: an isAllowed call at instant now first drops the client's timestamps
\* that are not later than now - window, admits iff fewer than maxRequests
\* remain, and appends now iff it admitted; other clients are untouched.
C11_PruneAdmitAppend ==
    [][rlCalls' = rlCalls + 1 =>
         LET c    == rlLast'.client
             kept == InWindow(clients[c].requests, now)
         IN  /\ rlLast'.allowed = (Len(kept) < MaxRequests)
             /\ (Len(kept) = MaxRequests => ~rlLast'.allowed)
             /\ clients'[c].requests =
                    (IF rlLast'.allowed THEN kept \o <<now>> ELSE kept)
             /\ \A d \in ClientIds \ {c} : clients'[d] = clients[d]]_vars

\* a call rejected at exactly maxRequests remaining timestamps, one of
\* them earlier than the call
C11_Witness ==
    /\ rlCalls > 0
    /\ ~rlLast.allowed
    /\ Len(rlLast.before) = MaxRequests
    /\ rlLast.before[1] < rlLast.at
    /\ clients[rlLast.client].requests = rlLast.before

\* the calls of client c since its record was created
Log(c) == rlLog[c]

\* call k of the log is made within one window of the first
SameWindow(c, k) == k <= Len(Log(c)) /\ Log(c)[k].at - Log(c)[1].at < WindowMs

\* C12: for a client with no prior record, the first M calls made within
\* one window are all admitted, the (M+1)-th call within that window is
\* rejected, and a call made once W has elapsed since every admitted call
\* is admitted again, however many rejected calls lie in between.
C12_WindowBudget ==
    \A c \in ClientIds :
        /\ \A k \in 1..MaxRequests : SameWindow(c, k) => Log(c)[k].ok
        /\ SameWindow(c, MaxRequests + 1) => ~Log(c)[MaxRequests + 1].ok
        /\ \A j \in 1..Len(Log(c)) :
               (\A i \in 1..(j - 1) :
                    Log(c)[i].ok => Log(c)[j].at - Log(c)[i].at >= WindowMs)
               => Log(c)[j].ok

\* M admitted calls, a rejected one in the same window, and an admitted
\* call exactly one window after the admitted ones
C12_Witness ==
    \E c \in ClientIds :
        /\ Len(Log(c)) = MaxRequests + 2
        /\ \A k \in 1..MaxRequests : Log(c)[k].ok /\ Log(c)[k].at = Log(c)[1].at
        /\ ~Log(c)[MaxRequests + 1].ok
        /\ Log(c)[MaxRequests + 2].ok
        /\ Log(c)[MaxRequests + 2].at = Log(c)[1].at + WindowMs

\* number of calls admitted for client c in the interval (t - WindowMs, t]
AdmittedIn(c, t) == Len(InWindow(SelectSeq(rlAdmitted[c], LAMBDA x : x <= t), t))

\* C13: for every client and every interval of length windowMs, at most
\* maxRequests calls are admitted inside the interval, sweeps included.
C13_WindowCap ==
    \A c \in ClientIds : \A t \in 0..MaxTime : AdmittedIn(c, t) <= MaxRequests

----------------------------------------------------------------------------
(* The memory cache *)

\* MemoryCache.defaultTTL, five minutes in units of 30 s
DefaultTTL == 10

\* the optional ttl argument: omitted, or a number of instants
TtlArgs == {<<>>, <<0>>, <<1>>, <<2>>}

\* the default parameter value ttl = this.defaultTTL
TtlOf(arg) == IF arg = <<>> THEN DefaultTTL ELSE arg[1]

MaxCacheOps == 3
MaxCacheTime == 3

Expired_atTtl(item, t) == t - item.timestamp >= item.ttl

\* the expiry test of get, has and cleanup
Expired(item, t) == t - item.timestamp > item.ttl

set_keepStamp(store, key, data, ttl, t) ==
    [store EXCEPT ![key] =
        [present |-> TRUE, data |-> data,
         timestamp |-> IF store[key].present THEN store[key].timestamp ELSE t,
         ttl |-> TtlOf(ttl)]]

\* MemoryCache.set at instant t
set(store, key, data, ttl, t) ==
    [store EXCEPT ![key] =
        [present |-> TRUE, data |-> data, timestamp |-> t,
         ttl |-> TtlOf(ttl)]]

get_evictSeen(store, key, t) ==
    IF ~store[key].present THEN [ret |-> JsNull, store |-> store]
    ELSE IF Expired(store[key], t) \/ store[key].timestamp = t
         THEN [ret |-> JsNull, store |-> [store EXCEPT ![key] = NoItem]]
         ELSE [ret |-> store[key].data, store |-> store]

\* MemoryCache.get at instant t: the value returned and the store left
get(store, key, t) ==
    IF ~store[key].present THEN [ret |-> JsNull, store |-> store]
    ELSE IF Expired(store[key], t)
         THEN [ret |-> JsNull, store |-> [store EXCEPT ![key] = NoItem]]
         ELSE [ret |-> store[key].data, store |-> store]

\* MemoryCache.has at instant t
has(store, key, t) ==
    IF ~store[key].present THEN [ret |-> "false", store |-> store]
    ELSE IF Expired(store[key], t)
         THEN [ret |-> "false", store |-> [store EXCEPT ![key] = NoItem]]
         ELSE [ret |-> "true", store |-> store]

cacheCleanup_all(store, t) == [k \in Keys |-> NoItem]

\* MemoryCache.cleanup at instant t
cacheCleanup(store, t) ==
    [k \in Keys |-> IF store[k].present /\ Expired(store[k], t) THEN NoItem ELSE store[k]]

CacheInit ==
    /\ GenIdle
    /\ now = 0
    /\ RLIdle
    /\ StoreIdle
    /\ ParseIdle
    /\ CacheIdle

CSet(k, v, ttl) ==
    /\ cOps < MaxCacheOps
    /\ cache' = set(cache, k, v, ttl, now)
    /\ cLatest' = [cLatest EXCEPT ![k] =
                      [live |-> TRUE, data |-> v, timestamp |-> now,
                       ttl |-> TtlOf(ttl),
                       sets |-> @.sets + 1,
                       over |-> IF ~cache[k].present THEN "none"
                                ELSE IF Expired(cache[k], now) THEN "expired"
                                ELSE "live"]]
    /\ cLast' = [op |-> "set", key |-> k, at |-> now, ret |-> JsUndefined,
                 invoked |-> FALSE]
    /\ cOps' = cOps + 1
    /\ UNCHANGED <<genVars, storeVars, parseVars, now, rlVars, wcTtl, wcFn>>

CGet(k) ==
    /\ cOps < MaxCacheOps
    /\ LET r == get(cache, k, now)
       IN  /\ cache' = r.store
           /\ cLast' = [op |-> "get", key |-> k, at |-> now, ret |-> r.ret,
                        invoked |-> FALSE]
    /\ cOps' = cOps + 1
    /\ UNCHANGED <<genVars, storeVars, parseVars, now, rlVars, cLatest, wcTtl, wcFn>>

CHas(k) ==
    /\ cOps < MaxCacheOps
    /\ LET r == has(cache, k, now)
       IN  /\ cache' = r.store
           /\ cLast' = [op |-> "has", key |-> k, at |-> now, ret |-> r.ret,
                        invoked |-> FALSE]
    /\ cOps' = cOps + 1
    /\ UNCHANGED <<genVars, storeVars, parseVars, now, rlVars, cLatest, wcTtl, wcFn>>

\* MemoryCache.delete
CDelete(k) ==
    /\ cOps < MaxCacheOps
    /\ cache' = [cache EXCEPT ![k] = NoItem]
    /\ cLatest' = [cLatest EXCEPT ![k] = NoSet]
    /\ cLast' = [op |-> "delete", key |-> k, at |-> now,
                 ret |-> IF cache[k].present THEN "true" ELSE "false",
                 invoked |-> FALSE]
    /\ cOps' = cOps + 1
    /\ UNCHANGED <<genVars, storeVars, parseVars, now, rlVars, wcTtl, wcFn>>

\* the interval timer runs cache.cleanup
CSweep ==
    /\ cache' = cacheCleanup(cache, now)
    /\ cache' # cache
    /\ UNCHANGED <<genVars, storeVars, parseVars, now, rlVars, cOps, cLast, cLatest, wcTtl, wcFn>>

CTick ==
    /\ now < MaxCacheTime
    /\ now' = now + 1
    /\ UNCHANGED <<genVars, storeVars, parseVars, rlVars, cacheVars>>

CacheNext ==
    \/ \E k \in Keys, v \in Values, ttl \in TtlArgs : CSet(k, v, ttl)
    \/ \E k \in Keys : CGet(k)
    \/ \E k \in Keys : CHas(k)
    \/ \E k \in Keys : CDelete(k)
    \/ CSweep
    \/ CTick

SpecCache == CacheInit /\ [][CacheNext]_vars

\* the step is a get or has of some key
IsRead == cOps' = cOps + 1 /\ cLast'.op \in {"get", "has"}

\* C14: after set(k, v, ttl) at t0 with no later set or delete of k, get(k)
\* returns v and has(k) is true at every t with t - t0 <= ttl, and get(k)
\* returns absent and has(k) is false at every t with t - t0 > ttl; the
\* expired read removes the entry of k and changes no other key.
C14_TtlRead ==
    [][IsRead /\ cLatest[cLast'.key].live =>
         LET k == cLast'.key
             s == cLatest[k]
         IN  /\ now - s.timestamp <= s.ttl =>
                   /\ cLast'.op = "get" => cLast'.ret = s.data
                   /\ cLast'.op = "has" => cLast'.ret = "true"
                   /\ cache' = cache
             /\ now - s.timestamp > s.ttl =>
                   /\ cLast'.op = "get" => cLast'.ret = JsNull
                   /\ cLast'.op = "has" => cLast'.ret = "false"
                   /\ ~cache'[k].present
                   /\ \A j \in Keys \ {k} : cache'[j] = cache[j]]_vars

\* a get exactly at ttl that returned the value, with the other key expired
\* and still in the store
C14_Witness ==
    /\ cLast.op = "get"
    /\ cLatest[cLast.key].live
    /\ cLatest[cLast.key].ttl > 0
    /\ cLast.at - cLatest[cLast.key].timestamp = cLatest[cLast.key].ttl
    /\ cLast.ret = "v"
    /\ \E j \in Keys \ {cLast.key} : cache[j].present /\ Expired(cache[j], now)

\* C15: set on a key that already has an entry replaces the whole entry
\* (value, timestamp and ttl are those of the latest set) and leaves every
\* other key's entry unchanged; a later read of a key set more than once
\* is decided by the latest set alone.
C15_SetReplaces ==
    [][/\ (cOps' = cOps + 1 /\ cLast'.op = "set") =>
             LET k == cLast'.key
             IN  /\ cache'[k].present
                 /\ cache'[k].data = cLatest'[k].data
                 /\ cache'[k].timestamp = now
                 /\ cache'[k].ttl = cLatest'[k].ttl
                 /\ \A j \in Keys \ {k} : cache'[j] = cache[j]
       /\ (IsRead /\ cLast'.op = "get" /\ cLatest[cLast'.key].sets > 1) =>
             LET s == cLatest[cLast'.key]
             IN  cLast'.ret = IF now - s.timestamp <= s.ttl THEN s.data ELSE JsNull
      ]_vars

\* a get that returned the value of the second set on its key, exactly
\* ttl after that set
C15_Witness ==
    /\ cLast.op = "get"
    /\ cLatest[cLast.key].sets = 2
    /\ cLatest[cLast.key].timestamp > 0
    /\ cLatest[cLast.key].ttl = 1
    /\ cLast.at = cLatest[cLast.key].timestamp + 1
    /\ cLast.ret = "v"

----------------------------------------------------------------------------
(* A function wrapped by withCache *)

\* the function returned by withCache, called at instant t with arguments
\* that map to key; result is what fn returns if it is invoked
withCache(store, key, ttl, result, t) ==
    LET cached == get(store, key, t)
    IN  IF cached.ret # JsNull
        THEN [ret |-> cached.ret, invoked |-> FALSE, store |-> cached.store]
        ELSE [ret |-> result, invoked |-> TRUE,
              store |-> set(cached.store, key, result, ttl, t)]

WrapInit ==
    /\ GenIdle
    /\ now = 0
    /\ RLIdle
    /\ StoreIdle
    /\ ParseIdle
    /\ cache = [k \in Keys |-> NoItem]
    /\ cOps = 0
    /\ cLast = NoOp
    /\ cLatest = [k \in Keys |-> NoSet]
    /\ wcTtl \in TtlArgs
    /\ wcFn = [k \in Keys |-> NoRun]

\* a call of the wrapped function with arguments that map to key k
WCall(k) ==
    /\ cOps < MaxCacheOps
    /\ \E result \in Values :
         LET r == withCache(cache, k, wcTtl, result, now)
         IN  /\ cache' = r.store
             /\ cLast' = [op |-> "call", key |-> k, at |-> now, ret |-> r.ret,
                          invoked |-> r.invoked]
             /\ wcFn' = [wcFn EXCEPT ![k] =
                            IF r.invoked
                            THEN [ran |-> TRUE, at |-> now, result |-> result]
                            ELSE @]
    /\ cOps' = cOps + 1
    /\ UNCHANGED <<genVars, storeVars, parseVars, now, rlVars, cLatest, wcTtl>>

WrapNext ==
    \/ \E k \in Keys : WCall(k)
    \/ CSweep
    \/ CTick

SpecWrap == WrapInit /\ [][WrapNext]_vars

\* C16: a call whose key was computed at most ttl ago does not invoke the
\* function and returns the computed result, whatever that result is; a
\* call made after ttl has expired invokes the function again.
C16_Memoized ==
    [][(cOps' = cOps + 1 /\ cLast'.op = "call" /\ wcFn[cLast'.key].ran) =>
         LET f == wcFn[cLast'.key]
         IN  IF now - f.at <= TtlOf(wcTtl)
             THEN ~cLast'.invoked /\ cLast'.ret = f.result
             ELSE cLast'.invoked]_vars

----------------------------------------------------------------------------
(* Read paths through the cache beside the generate route's writes *)

MaxPersist == 2

TitleB == Title(0, "B", 5, 0)

\* what a read computes from the table under either key: the number of
\* questions stored
Observe(table) == ToString(Cardinality(table))

InvalInit == WrapInit

\* route.ts:64-78 for a title whose response parsed: the question is
\* built, saved and counted
Persist(title) ==
    /\ nextId <= MaxPersist
    /\ LET q == BuildQuestion(nextId, Coerce(FullObject), title)
           w == SaveAndCount(generationStatus, db, q, "ok")
       IN  /\ db' = w.table
           /\ generationStatus' = w.gs
    /\ nextId' = nextId + 1
    /\ UNCHANGED <<req, phase, cur, task, response, libVars>>

\* a read of the table wrapped by withCache under key k
ReadThrough(k) ==
    /\ cOps < MaxCacheOps
    /\ LET r == withCache(cache, k, wcTtl, Observe(db), now)
       IN  /\ cache' = r.store
           /\ cLast' = [op |-> "read", key |-> k, at |-> now, ret |-> r.ret,
                        invoked |-> r.invoked]
           /\ wcFn' = [wcFn EXCEPT ![k] =
                          IF r.invoked
                          THEN [ran |-> TRUE, at |-> now, result |-> r.ret]
                          ELSE @]
    /\ cOps' = cOps + 1
    /\ UNCHANGED <<genVars, storeVars, parseVars, now, rlVars, cLatest, wcTtl>>

InvalNext ==
    \/ \E title \in {TitleA, TitleB} : Persist(title)
    \/ \E k \in Keys : ReadThrough(k)
    \/ CSweep
    \/ CTick

SpecInval == InvalInit /\ [][InvalNext]_vars

\* C17: a read through the cache made after generate has persisted an
\* artifact never returns what was computed from the table before that
\* write: it returns what the table holds now.
C17_NoStaleRead ==
    [][(cOps' = cOps + 1 /\ cLast'.op = "read") => cLast'.ret = Observe(db)]_vars

----------------------------------------------------------------------------
(* A question saved and read back *)

MaxStoreTime == 2

\* identifiers as generateId makes them
Id(n) == [gen |-> n, v |-> Absent]

\* the valid artifacts explored (QuestionSchema holds of each)
Artifacts ==
    { [id |-> id,
       title |-> TitleA,
       difficulty |-> Str(difficulty),
       topics |-> List(topics),
       description |-> Str("desc"),
       example |-> Obj3("4", "even", "4 % 2 = 0"),
       solution_python |-> Str("code"),
       step_by_step_explanation |-> List(steps),
       pseudocode |-> pseudocode,
       created_at |-> Iso(0),
       updated_at |-> updated_at] :
         id \in {Id(1), Id(2)},
         difficulty \in {"Easy", "Hard"},
         topics \in {<<"a">>, <<"a", "b">>, <<"b", "a">>},
         steps \in {<<"s1">>, <<"s1", "s2">>},
         pseudocode \in {Absent, List(<<>>), List(<<"p", "q">>)},
         updated_at \in {Absent, Iso(0), Iso(1)} }

\* a question stored earlier under identifier Id(1) with the same title
Earlier ==
    [id |-> Id(1), title |-> TitleA, difficulty |-> Str("Medium"),
     topics |-> List(<<"old">>), description |-> Str("old"),
     example |-> Obj3("1", "odd", "1 % 2 = 1"), solution_python |-> Str("old"),
     step_by_step_explanation |-> List(<<"old">>), pseudocode |-> Absent,
     created_at |-> Iso(0), updated_at |-> Absent]

StoreInit ==
    /\ GenIdle
    /\ now = 0
    /\ RLIdle
    /\ CacheIdle
    /\ ParseIdle
    /\ art \in Artifacts
    /\ got = NotFound
    /\ stPhase = "new"
    /\ savedAt = 0

\* an earlier write left a row in the table
StoreEarlier ==
    /\ stPhase = "new"
    /\ db = {}
    /\ db' = saveQuestion(db, Earlier, "ok").table
    /\ UNCHANGED <<req, phase, cur, task, generationStatus, response, nextId,
                   libVars>>

\* saveQuestion(art)
StoreSave(io) ==
    /\ stPhase = "new"
    /\ LET w == saveQuestion(db, art, io)
       IN  /\ db' = w.table
           /\ stPhase' = IF w.ok THEN "saved" ELSE "raised"
    /\ savedAt' = now
    /\ UNCHANGED <<req, phase, cur, task, generationStatus, response, nextId,
                   now, rlVars, cacheVars, parseVars, art, got>>

\* getQuestion(art.id)
StoreGet ==
    /\ stPhase = "saved"
    /\ got' = getQuestion(db, art.id)
    /\ stPhase' = "read"
    /\ UNCHANGED <<genVars, now, rlVars, cacheVars, parseVars, art, savedAt>>

StoreTick ==
    /\ now < MaxStoreTime
    /\ now' = now + 1
    /\ UNCHANGED <<genVars, rlVars, cacheVars, parseVars, storeVars>>

StoreNext ==
    \/ StoreEarlier
    \/ \E io \in {"ok", "fail"} : StoreSave(io)
    \/ StoreGet
    \/ StoreTick

SpecStore == StoreInit /\ [][StoreNext]_vars

\* C18 as stated: saveQuestion(a) followed by getQuestion(a.id) returns an
\* artifact equal to a field for field, the updated timestamp included.
C18_Original == stPhase = "read" => got.found /\ got.q = art

\* C18: saveQuestion(a) followed by getQuestion(a.id) returns an artifact
\* equal to a in every field but the updated timestamp (pseudocode absent
\* or equal, lists in the same order); the updated timestamp returned is
\* the instant of the save, whatever a carried.
C18_RoundTrip ==
    stPhase = "read" =>
        /\ got.found
        /\ [got.q EXCEPT !.updated_at = art.updated_at] = art
        /\ got.q.updated_at = Iso(savedAt)

\* an artifact without updated timestamp and without pseudocode, with two
\* topics in descending order, saved after instant 0 and read back
C18_Witness ==
    /\ stPhase = "read"
    /\ art.updated_at = Absent
    /\ art.pseudocode = Absent
    /\ art.topics = List(<<"b", "a">>)
    /\ art.id = Id(2)
    /\ savedAt > 0
    /\ Cardinality(db) = 1

----------------------------------------------------------------------------
(* One response text parsed *)

\* the response texts handed to the parser: each shape, around objects
\* whose fields are missing, null, empty or filled
ParseInputs ==
    { Text(shape, [FullObject EXCEPT !.title = title, !.difficulty = difficulty,
                                     !.description = description, !.topics = topics,
                                     !.step_by_step_explanation = steps,
                                     !.pseudocode = pseudocode]) :
        shape \in {"object", "prose", "garbled"},
        title \in {Absent, Null, Str(""), Str("A")},
        difficulty \in {Absent, Str(""), Str("Easy"), Str("Extreme")},
        description \in {Absent, Str(""), Str("desc")},
        topics \in {Absent, Str("math"), List(<<"math">>)},
        steps \in {Absent, Null, List(<<"one", "two">>)},
        pseudocode \in {Absent, Str("n/a"), List(<<>>), List(<<"line">>)} }

ParseInit ==
    /\ GenIdle
    /\ now = 0
    /\ RLIdle
    /\ CacheIdle
    /\ StoreIdle
    /\ prIn \in ParseInputs
    /\ prOut = NotParsed
    /\ prPhase = "text"

\* gemini.ts:80-113 and the catch block, on the text the retry returned
ParseStep ==
    /\ prPhase = "text"
    /\ prOut' = ParseResponse(prIn)
    /\ prPhase' = "parsed"
    /\ UNCHANGED <<genVars, now, rlVars, cacheVars, storeVars, prIn>>

ParseNext == ParseStep

SpecParse == ParseInit /\ [][ParseNext]_vars

Required == {"title", "difficulty", "description"}

\* the decoded object has no such key
Lacks(obj, f) == obj[f].t = "absent"

\* the parse failed with the incomplete-payload error
IncompleteError ==
    /\ ~prOut.ok
    /\ prOut.err = Err("GeminiError", <<"Incomplete response from Gemini API">>)

Decoded == prPhase = "parsed" /\ prIn.shape = "object"

\* C19 as stated: a decoded object lacking title, difficulty or description
\* fails with the incomplete-payload error and yields nothing; one that has
\* all three present never fails with that error.
C19_Original ==
    Decoded =>
        IF \E f \in Required : Lacks(prIn.obj, f)
        THEN IncompleteError /\ prOut.meta = NoMeta
        ELSE ~IncompleteError

\* C19: a decoded object fails with the incomplete-payload error, yielding
\* nothing, iff one of title, difficulty, description is missing, null or
\* the empty string; a text without a decodable object never fails with
\* that error.
C19_Incomplete ==
    prPhase = "parsed" =>
        /\ prIn.shape = "object" =>
              (IncompleteError <=>
                 \E f \in Required :
                    Lacks(prIn.obj, f) \/ prIn.obj[f] = Null \/ prIn.obj[f] = Str(""))
        /\ IncompleteError => prOut.meta = NoMeta
        /\ prIn.shape # "object" => ~prOut.ok /\ ~IncompleteError

\* an object with all three keys, the title empty, rejected as incomplete
C19_Witness ==
    /\ Decoded
    /\ \A f \in Required : ~Lacks(prIn.obj, f)
    /\ prIn.obj.title = Str("")
    /\ IncompleteError

----------------------------------------------------------------------------
(* Generation calls per title *)

\* C20: a title that passed sanitization gets at least one and at most 3
\* generation calls; attempt n+1 is made only after attempts 1..n all
\* returned empty text or raised; once an attempt has returned non-empty
\* text the title is settled and no further call is made for it, also when
\* the text fails parsing, which is recorded as the title's failure.
C20_Attempts ==
    /\ [](\A i \in Titles :
            /\ task[i].calls <= 3
            /\ Len(task[i].errs) <= task[i].calls
            /\ (task[i].st = "done" /\ validateAndSanitizeTitle(req[i]).ok)
                  => task[i].calls >= 1
            /\ (task[i].calls >= 1 /\ Len(task[i].errs) < task[i].calls)
                  => task[i].st \in {"inflight", "done"}
            /\ (task[i].st = "done" /\ task[i].calls >= 1
                  /\ Len(task[i].errs) = task[i].calls)
                  => task[i].calls = 3 /\ Failed(i))
    /\ [][\A i \in Titles :
            /\ task[i].st = "done" => task'[i] = task[i]
            /\ task'[i].calls # task[i].calls =>
                  /\ task'[i].calls = task[i].calls + 1
                  /\ Len(task[i].errs) = task[i].calls]_vars

\* a title whose first attempt raised and whose second attempt returned a
\* text lacking a mandatory field: failed after two calls, never written
C20_Witness ==
    /\ Len(req) = 1
    /\ task[1].st = "done"
    /\ task[1].calls = 2
    /\ Len(task[1].errs) = 1
    /\ task[1].writes = 0
    /\ Failed(1)
    /\ generationStatus.errors[1].msg = <<"Incomplete response from Gemini API">>

----------------------------------------------------------------------------
(* Fields of the persisted artifact set by the route *)

\* the sanitized titles of the request
SanitizedTitles == {validateAndSanitizeTitle(req[i]).title : i \in Titles}

\* C21: every row persisted by generate carries an identifier made by
\* generateId, the sanitized title of a submitted title and the creation
\* instant taken by the route, none of them a value of the parsed payload.
C21_OrchestratorFields ==
    \A r \in db :
        /\ r.id.v = Absent /\ r.id.gen \in 1..(nextId - 1)
        /\ r.title \in SanitizedTitles
        /\ r.created_at = Iso(now)

----------------------------------------------------------------------------
(* The sweep of the rate limiter *)

\* the step is a run of cleanup that deleted something
IsSweep == rlCalls' = rlCalls /\ clients' # clients

\* the newest timestamp stored for a client with a record
Newest(info) == IF info.requests = <<>> THEN info.lastReset
                ELSE info.requests[Len(info.requests)]

\* C22: a sweep deletes a client's record iff the client's newest request
\* timestamp is older than twice the window; a client with a request
\* admitted within the last two windows keeps its record and timestamps.
C22_SweepByNewest ==
    [][IsSweep =>
         \A c \in ClientIds :
            /\ clients[c].present =>
                  (~clients'[c].present <=>
                      Newest(clients[c]) < now - WindowMs * 2)
            /\ (rlAdmitted[c] # <<>>
                  /\ rlAdmitted[c][Len(rlAdmitted[c])] >= now - WindowMs * 2)
                  => clients'[c] = clients[c]]_vars

----------------------------------------------------------------------------
(* The stored request lists *)

NonDecreasing(ts) == \A k \in 1..(Len(ts) - 1) : ts[k] <= ts[k + 1]

\* C23 as stated: in every reachable state each stored list holds only
\* timestamps within [now - window, now], is non-decreasing and has at
\* most maxRequests entries.
C23_Original ==
    \A c \in ClientIds :
        LET ts == clients[c].requests
        IN  /\ \A k \in 1..Len(ts) : now - WindowMs <= ts[k] /\ ts[k] <= now
            /\ NonDecreasing(ts)
            /\ Len(ts) <= MaxRequests

\* C23: in every reachable state each stored list is non-decreasing, has at
\* most maxRequests entries and holds no timestamp later than now; when an
\* isAllowed call for the client returns, its list holds only timestamps
\* within (now - window, now], the older ones having been pruned before the
\* decision. Between calls a list keeps timestamps that have left the window.
C23_WindowAtCall ==
    /\ [](\A c \in ClientIds :
            LET ts == clients[c].requests
            IN  /\ \A k \in 1..Len(ts) : ts[k] <= now
                /\ NonDecreasing(ts)
                /\ Len(ts) <= MaxRequests)
    /\ [][rlCalls' = rlCalls + 1 =>
            LET ts == clients'[rlLast'.client].requests
            IN  /\ \A k \in 1..Len(ts) : now - WindowMs < ts[k] /\ ts[k] <= now
                /\ rlLast'.allowed =
                      (Len(InWindow(rlLast'.before, now)) < MaxRequests)]_vars

\* a call that found a full list of timestamps outside the window, pruned
\* them and was admitted
C23_Witness ==
    /\ rlCalls > 0
    /\ rlLast.at = now
    /\ Len(rlLast.before) = MaxRequests
    /\ \A k \in 1..Len(rlLast.before) : rlLast.before[k] <= rlLast.at - WindowMs
    /\ rlLast.allowed
    /\ clients[rlLast.client].requests = <<rlLast.at>>

----------------------------------------------------------------------------
(* Request handlers sharing the limiter and the cache *)

\* the client and the key the concurrent handlers contend for
ConcClients == {"c1"}
ConcKeys == {"questions:stats"}

ConcInit == CacheInit

\* isAllowed, set, get and has are synchronous: a handler runs each of them
\* to its return before any other handler runs
ConcNext ==
    \/ \E c \in ConcClients : RLCall(c)
    \/ \E k \in ConcKeys, ttl \in {<<0>>, <<>>} : CSet(k, "v", ttl)
    \/ \E k \in ConcKeys : CGet(k)
    \/ \E k \in ConcKeys : CHas(k)
    \/ CTick

SpecConc == ConcInit /\ [][ConcNext]_vars

----------------------------------------------------------------------------
(* The sweep of the cache *)

\* the step is a run of cache.cleanup that deleted something
IsCacheSweep == cOps' = cOps /\ cache' # cache

\* C25: right after a cleanup sweep at instant now the store holds no entry
\* with now - timestamp > ttl, and every entry that had
\* now - timestamp <= ttl before the sweep is present and unchanged.
C25_SweepExact ==
    [][IsCacheSweep =>
         \A k \in Keys :
            /\ cache'[k].present => now - cache'[k].timestamp <= cache'[k].ttl
            /\ (cache[k].present /\ now - cache[k].timestamp <= cache[k].ttl)
                  => cache'[k] = cache[k]]_vars

\* only sets were made; the sweep removed the expired key and left the
\* key that is exactly at its ttl
C25_Witness ==
    /\ cOps = 2
    /\ \A k \in Keys : cLatest[k].sets = 1
    /\ \E k \in Keys : now - cLatest[k].timestamp > cLatest[k].ttl /\ ~cache[k].present
    /\ \E k \in Keys :
          /\ cLatest[k].ttl > 0
          /\ now - cLatest[k].timestamp = cLatest[k].ttl
          /\ cache[k] = [present |-> TRUE, data |-> cLatest[k].data,
                         timestamp |-> cLatest[k].timestamp, ttl |-> cLatest[k].ttl]

----------------------------------------------------------------------------
(* Leniency of the parser *)

\* what the parse makes of a list-typed field
AsList(v) == IF v.t = "list" THEN v ELSE List(<<>>)

Coerced ==
    /\ prOut.ok
    /\ prOut.meta.topics = AsList(prIn.obj.topics)
    /\ prOut.meta.step_by_step_explanation = AsList(prIn.obj.step_by_step_explanation)
    /\ prOut.meta.pseudocode =
          (IF prIn.obj.pseudocode.t = "list" THEN prIn.obj.pseudocode ELSE Absent)

\* C26 as stated: a decoded payload in which title, difficulty and
\* description are present parses, with topics and steps made lists and
\* pseudocode a list or absent.
C26_Original ==
    (Decoded /\ \A f \in Required : ~Lacks(prIn.obj, f)) => Coerced

\* C26: a decoded payload in which title, difficulty and description are
\* present and truthy parses whatever the presence or type of topics,
\* step_by_step_explanation and pseudocode: topics and steps come out as the
\* payload's list or the empty list, pseudocode as the payload's list or
\* absent, every other field as decoded.
C26_Lenient ==
    (Decoded /\ \A f \in Required : Truthy(prIn.obj[f])) =>
        /\ Coerced
        /\ \A f \in DOMAIN prIn.obj \ {"topics", "step_by_step_explanation", "pseudocode"} :
              prOut.meta[f] = prIn.obj[f]

\* topics a string, steps null and pseudocode a string, parsed into two
\* empty lists and an absent pseudocode
C26_Witness ==
    /\ Decoded
    /\ prIn.obj.topics = Str("math")
    /\ prIn.obj.step_by_step_explanation = Null
    /\ prIn.obj.pseudocode = Str("n/a")
    /\ prOut.ok
    /\ prOut.meta.topics = List(<<>>)
    /\ prOut.meta.step_by_step_explanation = List(<<>>)
    /\ prOut.meta.pseudocode = Absent

----------------------------------------------------------------------------
(* Errors leaving generateQuestionMetadata *)

\* generateQuestionMetadata threw for title i
Threw(i) == task[i].thrown # NoErr

\* C27: whatever makes the generate-and-parse step of a title fail
\* (attempts exhausted, no object literal, undecodable literal, mandatory
\* field missing), the error that reaches the route is a GeminiError; a
\* title whose attempts are exhausted has thrown.
C27_OnlyGeminiError ==
    \A i \in Titles :
        /\ Threw(i) => task[i].thrown.type = "GeminiError" /\ Failed(i)
        /\ Len(task[i].errs) = 3 => Threw(i)
        /\ (Failed(i) /\ task[i].calls > Len(task[i].errs) /\ ~Threw(i))
              => task[i].writes = 1
                 \/ \E k \in 1..Len(generationStatus.errors) :
                       generationStatus.errors[k].msg = <<"Generated question is incomplete">>

\* an undecodable object literal reached the route as a GeminiError that
\* wraps the decode error
C27_Witness ==
    \E i \in Titles :
        /\ Threw(i)
        /\ task[i].thrown = Err("GeminiError",
              <<"Failed to generate question metadata: ", "Unexpected token">>)
        /\ Failed(i)

----------------------------------------------------------------------------
(* Termination of a generate call *)

\* timers fire, Promise.all settles, and every generation call and every
\* write returns or raises
Fairness ==
    /\ WF_vars(Receive)
    /\ WF_vars(\E i \in 1..Len(req) : StaggerWake(i))
    /\ WF_vars(\E i \in 1..Len(req) : RetryWake(i))
    /\ WF_vars(\E i \in 1..Len(req) : AttemptFails(i) \/ AttemptReturnsText(i))
    /\ WF_vars(AwaitBatch)
    /\ WF_vars(InterBatchWake)

\* requests of titles that pass, or fail, sanitization
LiveInit == Init /\ \A k \in 1..Len(req) : req[k] \in {TitleA, TitleBlank}

FairSpec == LiveInit /\ [][Next]_vars /\ Fairness

\* every title has its final outcome
AllFinal ==
    \A i \in Titles : task[i].st = "done" /\ (Completed(i) \/ Failed(i))

\* C28: a generate call on a valid batch eventually returns its ledger, and
\* when it does every submitted title is completed or failed, none pending
\* or in progress.
C28_Terminates ==
    (phase = "received" /\ GenerateRequestSchema(req))
        ~> (Responded /\ response.hasData /\ response.data.total = Len(req)
              /\ AllFinal)

\* a ledger returned for two batches, with a completed and a failed title
C28_Witness ==
    /\ Responded
    /\ response.hasData
    /\ Len(req) > MAX_CONCURRENT_GENERATIONS
    /\ AllFinal
    /\ \E i \in Titles : Completed(i)
    /\ \E i \in Titles : Failed(i) /\ task[i].calls = 3

----------------------------------------------------------------------------
(* Observers of the cache *)

\* MemoryCache.size
size(store) == Cardinality({k \in Keys : store[k].present})

\* MemoryCache.getStats
getStats(store) == [size |-> size(store), keys |-> {k \in Keys : store[k].present}]

\* the keys for which get would return the stored value at instant t
Live(store, t) == {k \in Keys : store[k].present /\ get(store, k, t).store = store}

\* C29: at any time size() and getStats() count and list only keys for
\* which get would return a value, never a key whose entry has
\* now - timestamp > ttl.
C29_StatsOnlyLive ==
    /\ getStats(cache).keys = Live(cache, now)
    /\ getStats(cache).size = Cardinality(Live(cache, now))
    /\ size(cache) = Cardinality(Live(cache, now))

----------------------------------------------------------------------------
(* The result of isAllowed *)

\* C30: in every result of isAllowed, remaining is maxRequests minus the
\* client's in-window count after the call (0 when the call is rejected),
\* and resetTime of a rejected call is later than the call, no earlier than
\* the instant the client's oldest in-window timestamp leaves the window.
C30_Result ==
    [][rlCalls' = rlCalls + 1 =>
         LET r  == rlLast'
             ts == InWindow(clients'[r.client].requests, now)
         IN  /\ r.remaining = MaxRequests - Len(ts)
             /\ 0 <= r.remaining /\ r.remaining <= MaxRequests
             /\ ~r.allowed =>
                   /\ r.remaining = 0
                   /\ r.resetTime > now
                   /\ r.resetTime >= ts[1] + WindowMs]_vars

====
